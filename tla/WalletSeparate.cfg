\* Requests that could disturb one another do not overlap.
SPECIFICATION Spec
CONSTANTS
    u1 = u1
    u2 = u2
    u3 = u3
    s1 = s1
    s2 = s2
    s3 = s3
    ref = ref
    back = back
    sale = sale
    NoUser = NoUser
    NoCode = NoCode
    NoJob = NoJob
    Users = {u1, u2}
    Codes = {ref, sale}
    Sessions = {s1, s2}
    Jobs <- SeparateJobs
    Referral = {ref}
    Owner <- MCOwner
    Grant <- MCGrant
    Period = 30
    PointsPerPeriod = 3
    RewardCap = 4
    StartBalance <- MCBalance
    StartLinked = {u1}
    StartRedemptions <- NoRedemptions
    StartOwnCodes <- FirstOwnerCode
    MaxJobs = 6
    MaxFailures = 1
    Calm = TRUE
INVARIANTS
    TypeOK
    BalanceIsLedger
    RewardExact
    RedeemedByRule
\* The requests are bounded.
CHECK_DEADLOCK FALSE
