------------------------------ MODULE Dormancy ------------------------------
(***************************************************************************)
(* The monthly cron that disables dormant users: one user's last login and *)
(* what PostgreSQL's AGE(NOW(), "lastLoginDate") makes of it, an interval  *)
(* of years, months and days.                                              *)
(***************************************************************************)
EXTENDS Integers

CONSTANT MaxYears  \* bound

VARIABLES
    age,      \* since the last login; NeverIn if there was none
    status,   \* accountStatus of the user
    poor,     \* five cedis at most on the user's accounts together
    swept     \* the cron has run, and nothing has happened since

vars == <<age, status, poor, swept>>

Ages == [years : 0..MaxYears, months : 0..11, days : 0..30]
NeverIn == [years |-> 0, months |-> 0, days |-> -1]
JustNow == [years |-> 0, months |-> 0, days |-> 0]

TypeOK ==
    /\ age \in Ages \cup {NeverIn}
    /\ status \in {"active", "disabled"}
    /\ {poor, swept} \subseteq BOOLEAN

Init ==
    /\ age = NeverIn /\ status = "active"
    /\ poor \in BOOLEAN /\ swept = FALSE

\* authenticate
Login ==
    /\ status = "active"
    /\ age' = JustNow
    /\ swept' = FALSE
    /\ UNCHANGED <<status, poor>>

\* A day later; a month has 28 to 31 of them.
DayPasses ==
    /\ age # NeverIn
    /\ \/ /\ age.days < 30
          /\ age' = [age EXCEPT !.days = @ + 1]
       \/ /\ age.days >= 27 /\ age.months < 11
          /\ age' = [years |-> age.years, months |-> age.months + 1, days |-> 0]
       \/ /\ age.days >= 27 /\ age.months = 11 /\ age.years < MaxYears
          /\ age' = [years |-> age.years + 1, months |-> 0, days |-> 0]
    /\ swept' = FALSE
    /\ UNCHANGED <<status, poor>>

Pay ==
    /\ poor' = ~poor
    /\ swept' = FALSE
    /\ UNCHANGED <<age, status>>

\* EXTRACT(DAY FROM AGE(...)) + EXTRACT(MONTH FROM AGE(...)) * 30
NumberOfDays == age.days + 30 * age.months

\* getAllLegibleAccountsToDeactivate and deactivateAccounts.
MonthlyRun ==
    /\ status' = IF age # NeverIn /\ NumberOfDays >= 365 /\ poor
                 THEN "disabled" ELSE status
    /\ swept' = TRUE
    /\ UNCHANGED <<age, poor>>

Next == Login \/ DayPasses \/ Pay \/ MonthlyRun

Spec == Init /\ [][Next]_vars

-----------------------------------------------------------------------------
\* The cron, 'DEACTIVATE DORMANT', is for users who have been away 365 days and
\* have five cedis at most: when it has run, no such user is left active.
DormantIsDisabled ==
    (swept /\ age.years >= 1 /\ poor) => status = "disabled"

=============================================================================
