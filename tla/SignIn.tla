------------------------------- MODULE SignIn -------------------------------
(***************************************************************************)
(* The password in one user's auth_user_entity row.  changePassword and    *)
(* resetPassword read the row, encode the new password and save the row.   *)
(* authenticate saves it too, for the date of the login, without waiting   *)
(* for the save and whether or not the password was right.  em.save writes *)
(* back every column of the copy that was read, the password among them.   *)
(* The answer to a change is made after its save, and may not come.        *)
(***************************************************************************)
EXTENDS FiniteSets

CONSTANTS
    Visits,   \* calls made, each once
    First,    \* password at sign-up
    Fresh     \* the password a call would set, another than First

VARIABLES
    password, \* in the row
    login,    \* lastLoginDate in the row: the visit it is the date of
    visit,    \* where each call is
    copy,     \* the row it holds, as it will save it
    agreed,   \* the password last confirmed to the user,
    latest,   \* and the visit whose change was saved last
    stale     \* a password was saved while another call held a copy

signInVars == <<password, login, visit, copy, agreed, latest, stale>>

Never == "never"

ASSUME SignInAssumption == Never \notin Visits

Passwords == {First} \cup {Fresh[v] : v \in Visits}
AuthRow == [password : Passwords, login : Visits \cup {Never}]
FirstRow == [password |-> First, login |-> Never]

SignInTypeOK ==
    /\ [password |-> password, login |-> login] \in AuthRow
    /\ visit \in [Visits -> {"idle", "login", "change", "reset", "answer",
                          "ended", "broken"}]
    /\ copy \in [Visits -> AuthRow]
    /\ agreed \in Passwords
    /\ latest \in Visits \cup {Never}
    /\ stale \in BOOLEAN

SignInInit ==
    /\ password = First /\ login = Never
    /\ visit = [v \in Visits |-> "idle"]
    /\ copy = [v \in Visits |-> FirstRow]
    /\ agreed = First /\ latest = Never
    /\ stale = FALSE

\* Calls that have read the row and are still to save it.
Holding == {v \in Visits : visit[v] \in {"login", "change", "reset"}}

Goes(v, where) == visit' = [visit EXCEPT ![v] = where]
Holds(v, row) == copy' = [copy EXCEPT ![v] = row]

-----------------------------------------------------------------------------
\* authenticate: what the save will write has the new date; the password sent
\* is only looked at afterwards.
Authenticate(v) ==
    /\ visit[v] = "idle"
    /\ Holds(v, [password |-> password, login |-> v])
    /\ Goes(v, "login")
    /\ UNCHANGED <<password, login, agreed, latest, stale>>

\* The statement of that save reaches the database.
SaveLogin(v) ==
    /\ visit[v] = "login"
    /\ password' = copy[v].password /\ login' = copy[v].login
    /\ Goes(v, "ended")
    /\ UNCHANGED <<copy, agreed, latest, stale>>

\* changePassword with some old password; a wrong one is refused.
ReadToChange(v, old) ==
    /\ visit[v] = "idle"
    /\ IF old = password
       THEN /\ Holds(v, [password |-> Fresh[v], login |-> login])
            /\ Goes(v, "change")
       ELSE /\ Goes(v, "ended")
            /\ UNCHANGED copy
    /\ UNCHANGED <<password, login, agreed, latest, stale>>

\* resetPassword, which wants none.
ReadToReset(v) ==
    /\ visit[v] = "idle"
    /\ Holds(v, [password |-> Fresh[v], login |-> login])
    /\ Goes(v, "reset")
    /\ UNCHANGED <<password, login, agreed, latest, stale>>

\* Mutant: the call does not wait for the save, and the save fails.
ForgetChange(v) ==
    /\ visit[v] \in {"change", "reset"}
    /\ latest' = v
    /\ stale' = (stale \/ Holding # {v})
    /\ Goes(v, "answer")
    /\ UNCHANGED <<password, login, copy, agreed>>

SaveChange(v) ==
    /\ visit[v] \in {"change", "reset"}
    /\ password' = copy[v].password /\ login' = copy[v].login
    /\ latest' = v
    /\ stale' = (stale \/ Holding # {v})
    /\ Goes(v, "answer")
    /\ UNCHANGED <<copy, agreed>>

\* The answer that confirms the change, after a reset's tokens are made and
\* saved.  One that a later change has overtaken confirms nothing.
Confirm(v) ==
    /\ visit[v] = "answer"
    /\ agreed' = IF latest = v THEN Fresh[v] ELSE agreed
    /\ Goes(v, "ended")
    /\ UNCHANGED <<password, login, copy, latest, stale>>

\* A database call rejects, a save's answer is lost, the tokens cannot be made or
\* the process dies: what was saved stays, and nothing is confirmed.
Break(v) ==
    /\ v \in Holding \/ visit[v] = "answer"
    /\ Goes(v, "broken")
    /\ UNCHANGED <<password, login, copy, agreed, latest, stale>>

VisitStep(v) ==
    \/ Authenticate(v)
    \/ SaveLogin(v)
    \/ \E old \in Passwords : ReadToChange(v, old)
    \/ ReadToReset(v)
    \/ SaveChange(v)
    \/ Confirm(v)
    \/ Break(v)

SignInNext == \E v \in Visits : VisitStep(v)

SignInSpec == SignInInit /\ [][SignInNext]_signInVars

-----------------------------------------------------------------------------
\* A change that was saved last and not confirmed: its call is about to answer,
\* or broke before it had.
InDoubt == \E v \in Visits : latest = v /\ visit[v] \in {"answer", "broken"}

\* What opens the account is the password last confirmed to the user or, while
\* the last change saved has not been answered, that change's: a login, a failed
\* one included, or another change puts an older one back only if it held its
\* copy of the row while a change was saved.
PasswordStands ==
    stale \/ password = (IF InDoubt THEN Fresh[latest] ELSE agreed)

=============================================================================
