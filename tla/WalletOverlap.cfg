\* Any overlap; the buyers of two codes lock one another's wallets.
SPECIFICATION FairSpec
CONSTANTS
    u1 = u1
    u2 = u2
    u3 = u3
    s1 = s1
    s2 = s2
    s3 = s3
    ref = ref
    back = back
    sale = sale
    NoUser = NoUser
    NoCode = NoCode
    NoJob = NoJob
    Users = {u1, u2, u3}
    Codes = {ref, back, sale}
    Sessions = {s1, s2}
    Jobs <- OverlapJobs
    Referral = {ref, back}
    Owner <- MCOwner
    Grant <- MCGrant
    Period = 30
    PointsPerPeriod = 3
    RewardCap = 4
    StartBalance <- MCBalance
    StartLinked = {u1, u2}
    StartRedemptions <- MutualRedemptions
    StartOwnCodes <- OwnersCodes
    MaxJobs = 4
    MaxFailures = 0
    Calm = FALSE
INVARIANTS
    CountersBacked
PROPERTIES
    SessionEnds
\* The requests are bounded.
CHECK_DEADLOCK FALSE
