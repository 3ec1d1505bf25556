\* Two referees, of a referrer or of an influencer; two runs of the half-hourly
\* cron, one of the daily cron, one fault.
CONSTANTS
    u1 = u1
    u2 = u2
    r2 = r2
    Referees = {u1, u2}
    Referrer = referrer
    Runs = {r1, r2}
    PayChunk = 1
    MoveChunk = 2
    Openings = {2}
    MaxFaults = 1
SPECIFICATION MCSpec
CHECK_DEADLOCK FALSE
INVARIANTS
    PaidOnce
    OneHalfIsPaid
    BonusBookKept
PROPERTIES
    VerifiedIsPaid
