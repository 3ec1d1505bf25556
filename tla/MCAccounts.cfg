\* Three transfers between two users, one of whose refreshes fails; two sign-ups
\* with two numbers and two promo codes, and two runs of the cron; three calls
\* about the payment methods of two users, with one OTP that two creates may share
\* (what they do then may still happen in turn); three calls on one user's
\* credentials.  c1 to c3 name the calls of each machine but the sign-ups, u1 and
\* u2 its users, numbers or runs.
CONSTANTS
    Transfers = {c1, c2, c3}
    Users = {u1, u2}
    NoUser = NoUser
    NoRow = NoRow
    Opening = 1
    MaxDrops = 1
    SignUps = {s1, s2}
    Phones = {u1, u2}
    Codes = {code1, code2}
    Ticks = {u1, u2}
    NoOne = NoOne
    Calls = {c1, c2, c3}
    Clients = {u1, u2}
    Otps = {otp1}
    NoOtp = NoOtp
    Visits = {c1, c2, c3}
    First = First
    Fresh <- FreshPassword
SPECIFICATION MCSpec
SYMMETRY Symmetry
VIEW View
CHECK_DEADLOCK FALSE
INVARIANTS
    RimIsTotal
    OneUserPerPhone
    CodeSentOnce
    OtpUsedOnce
    OneDefault
    PasswordStands
