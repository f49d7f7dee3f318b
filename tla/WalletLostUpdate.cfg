\* A redemption beside a CRM credit of the same account.
SPECIFICATION Spec
CONSTANTS
    u1 = u1
    u2 = u2
    u3 = u3
    s1 = s1
    s2 = s2
    s3 = s3
    ref = ref
    back = back
    sale = sale
    NoUser = NoUser
    NoCode = NoCode
    NoJob = NoJob
    Users = {u1, u2}
    Codes = {sale}
    Sessions = {s1, s2}
    Jobs <- LostUpdateJobs
    Referral = {}
    Owner <- MCOwner
    Grant <- MCGrant
    Period = 30
    PointsPerPeriod = 3
    RewardCap = 4
    StartBalance <- MCBalance
    StartLinked = {u1, u2}
    StartRedemptions <- NoRedemptions
    StartOwnCodes <- FirstOwnerCode
    MaxJobs = 2
    MaxFailures = 0
    Calm = FALSE
INVARIANTS
    BalanceIsLedger
\* The requests are bounded.
CHECK_DEADLOCK FALSE
