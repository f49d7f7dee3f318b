SPECIFICATION Spec

CONSTANTS
    Requests = {r1, r2}
    Accounts = {u1, u2}
    NoAccount = NoAccount
    Subscriptions = {p1, p2, p3}
    NoSubscription = NoSubscription
    Profiles = {p1, p2}
    MaxChanges = 4
    MaxTransfers = 2
    MaxEvents = 1
    EmailAccounts = {e1, e2}
    TelegramAccounts = {t1}
    TelegramIds = {g1}
    NoTelegram = NoTelegram
    MaxEarned = 1
    MaxRows = 1
    MaxLinks = 2
    MaxTokens = 3
    MaxCodes = 2
    MaxAttempts = 1
    MaxIssued = 4
    MaxOutages = 1
    MaxPeriods = 2
    MaxCalls = 3
    MaxInterrupted = 1
    Players = {1, 2, 3}
    NoPlayer = NoPlayer
    NoHandler = NoHandler
    WinnerCount = 1
    Selections = {"random", "most_tickets"}
    MaxTickets = 3
    Claims = {r1, r2}
    MaxNames = 3
    MaxPurchases = 1
    MaxLapses = 1
    MaxMishaps = 2
    Addresses = {"m1", "m2"}
    NoAddress = "none"
    MaxAsked = 4
    Orders = {o1}
    Terms = {"before", "after"}
    NoTerms = "hidden"
    MaxRevisions = 3
    MaxFaults = 3
    FailureTtl = 1
    LiveTtl = 2
    LastRate = 4
    MaxAsks = 4
    Tabs = {1, 2}
    PageProfiles = {1}
    MaxPageCodes = 1
    AccessTtl = 2
    CodeTtl = 2
    ContextTtl = 2
    SessionTtl = 2
    LastPageMoment = 4
    MaxPageEvents = 3
    Readers = {"u"}
    MaxIncidents = 2
    Screens = {"main", "extra"}
    System = {"main"}
    Buttons = {"b1", "b2"}
    MenuEdits <- SentEdits
    MaxViews = 2
    MaxSwitches = 2
    Folk = {"ann", "bob"}
    Nicknames = {"n1", "n2"}
    NoNickname = "none"
    Records = {"x", "y", "z"}
    BotProfiles = {"f1", "f2"}
    NoBotProfile = "none"
    HeldBy <- OwnProfiles
    PanelNames <- OwnNames
    Traced = {"f1"}
    Beginnings <- PlainStarts
    MaxUpdates = 4

SYMMETRY Slots

INVARIANTS
    TypeOK
    LinksSound
    MergeKeeps
    SessionsSound
    PeriodsDelivered
    CredentialsSound
    CheckoutSound
    Throttled
    MenuServed
    

PROPERTIES
    
    GiveawayFair
    

CHECK_DEADLOCK FALSE
